---- MODULE Spec2Model ----
(***************************************************************************)
(* Model of the live audio bridge of V-Assistant:                          *)
(*   src/services/geminiLiveService.ts  (class GeminiLiveService)          *)
(*   src/App.tsx                        (the callbacks and the handlers)   *)
(*                                                                         *)
(* One bridge instance is followed.  Every startSession call on it has a   *)
(* number c: the microphone stream, the two audio contexts, the streaming  *)
(* connection and the capture nodes that call creates carry the same      *)
(* number, and 0 stands for null.  An async function is cut at its awaits: *)
(* each action is one run-to-completion segment of the event loop.         *)
(***************************************************************************)
EXTENDS Integers, Sequences, FiniteSets, TLC

\* ------------------------------------------------------------------ bounds
MaxCalls          == 2   \* startSession calls on the instance
MaxTranscriptMsgs == 3   \* messages handled under SpecTranscript
MaxAudioMsgs      == 3   \* messages handled under SpecPlayback
MaxSessionMsgs    == 2   \* messages handled under Spec and SpecBridge
MaxTime           == 2   \* ticks of the output audio clock

Calls     == 1..MaxCalls
Durations == {1, 2}                \* audioBuffer.duration of a decoded chunk
Texts     == {<<"a">>, <<"b">>}    \* the text of a partial transcript
Speakers  == {"Victime", "IA"}

VARIABLES
  \* ---- fields of GeminiLiveService (0 = null)
  session, sessionPromise, mediaStream,
  inputAudioContext, outputAudioContext, scriptProcessor, sourceNode,
  outputSources, nextStartTime,
  currentInputTranscription, currentOutputTranscription,
  \* ---- the platform: what the fields refer to
  pc,            \* pc[c]: where startSession call c stands
  conn,          \* conn[c]: state of the connection opened by call c
  liveStreams,   \* microphone streams whose tracks are not stopped
  openInputs,    \* open 16 kHz contexts
  openOutputs,   \* open 24 kHz contexts
  connectedProc, \* script processors still connected
  connectedSrc,  \* media-stream source nodes still connected
  queued,        \* session promises with a frame waiting in a then() reaction
  currentTime,   \* outputAudioContext.currentTime
  chunks,        \* audio chunks in arrival order, with their playback unit
  scheduled,     \* indices of chunks, in the order source.start() was called
  \* ---- App.tsx
  sessionState, transcripts, serviceRef,
  \* ---- history
  calls,         \* the callbacks invoked by the last step, in order
  last,          \* the last step: its operation, call number and message
  partials,      \* per speaker, the partial texts received in the current turn
  hist           \* flags and counters over the whole run

fields   == <<session, sessionPromise, mediaStream, inputAudioContext,
              outputAudioContext, scriptProcessor, sourceNode>>
platform == <<liveStreams, openInputs, openOutputs, connectedProc, connectedSrc,
              queued>>
playback == <<outputSources, nextStartTime, chunks, scheduled>>
buffers  == <<currentInputTranscription, currentOutputTranscription, partials>>
ui       == <<sessionState, transcripts, serviceRef>>
vars     == <<fields, platform, playback, buffers, ui, pc, conn, currentTime,
              calls, last, hist>>

Max(a, b) == IF a >= b THEN a ELSE b

\* ---------------------------------------------------------------- messages
\* A LiveServerMessage: an absent field is <<>>, a present one <<text>>;
\* audio is the duration of the chunk it carries, 0 when it carries none.
Msg(i, o, t, x, a) ==
  [inputTranscription |-> i, outputTranscription |-> o,
   turnComplete |-> t, interrupted |-> x, audio |-> a]

NoMsg == Msg(<<>>, <<>>, FALSE, FALSE, 0)

TranscriptMsgs ==
  {Msg(<<t>>, <<>>, FALSE, FALSE, 0) : t \in Texts}
    \cup {Msg(<<>>, <<t>>, FALSE, FALSE, 0) : t \in Texts}
    \cup {Msg(<<>>, <<>>, TRUE, FALSE, 0),
          Msg(<<<<"a">>>>, <<>>, TRUE, FALSE, 0),
          Msg(<<<<"a">>>>, <<<<"b">>>>, FALSE, FALSE, 0)}

AudioMsgs ==
  {Msg(<<>>, <<>>, FALSE, FALSE, d) : d \in Durations}
    \cup {Msg(<<>>, <<>>, FALSE, TRUE, 0),
          Msg(<<>>, <<>>, FALSE, TRUE, 1)}

SessionMsgs ==
  {Msg(<<<<"a">>>>, <<>>, FALSE, FALSE, 0),
   Msg(<<>>, <<<<"b">>>>, FALSE, FALSE, 0),
   Msg(<<>>, <<>>, TRUE, FALSE, 0),
   Msg(<<>>, <<>>, FALSE, TRUE, 0),
   Msg(<<>>, <<>>, FALSE, FALSE, 1)}

\* ---------------------------------------------------------------- callbacks
\* One invocation of a callback of the Callbacks interface.
Cb(name, text, speaker, msg) ==
  [cb |-> name, text |-> text, isFinal |-> FALSE, speaker |-> speaker, msg |-> msg]

TranscriptUpdate(text, speaker) == Cb("onTranscriptUpdate", text, speaker, "")
TurnComplete(speaker)           == Cb("onTurnComplete", <<>>, speaker, "")
OnError(msg)                    == Cb("onError", <<>>, "", msg)
OnClose                         == Cb("onClose", <<>>, "", "")

\* The record of a step: its operation, the call (or chunk) it is about and the
\* message it handled.
Step(op, c, m) == [op |-> op, c |-> c, msg |-> m, isError |-> TRUE]

Init ==
  /\ session = 0 /\ sessionPromise = 0 /\ mediaStream = 0
  /\ inputAudioContext = 0 /\ outputAudioContext = 0
  /\ scriptProcessor = 0 /\ sourceNode = 0
  /\ outputSources = {} /\ nextStartTime = 0
  /\ currentInputTranscription = <<>> /\ currentOutputTranscription = <<>>
  /\ pc = [c \in Calls |-> "none"]
  /\ conn = [c \in Calls |-> "none"]
  /\ liveStreams = {} /\ openInputs = {} /\ openOutputs = {}
  /\ connectedProc = {} /\ connectedSrc = {}
  /\ queued = {}
  /\ currentTime = 0
  /\ chunks = <<>> /\ scheduled = <<>>
  /\ sessionState = "idle" /\ transcripts = <<>> /\ serviceRef = FALSE
  /\ calls = <<>>
  /\ last = Step("init", 0, NoMsg)
  /\ partials = [s \in Speakers |-> [texts |-> <<>>, closed |-> FALSE]]
  /\ hist = [stopped |-> FALSE, interrupted |-> FALSE, msgs |-> 0,
             afterInt |-> FALSE, intClock |-> 0, jumped |-> FALSE,
             teardowns |-> 0, reclosed |-> FALSE,
             sentTorn |-> FALSE, sentEarly |-> FALSE]

\* ------------------------------------------------------------------ App.tsx
\* onTranscriptUpdate: the setTranscripts updater.
onTranscriptUpdate(prev, text, isFinal, speaker) ==
  IF /\ Len(prev) > 0
     /\ ~prev[Len(prev)].isFinal
     /\ prev[Len(prev)].speaker = speaker
  THEN [prev EXCEPT ![Len(prev)] = [@ EXCEPT !.text = text, !.isFinal = isFinal]]
  ELSE Append(prev, [speaker |-> speaker, text |-> text, isFinal |-> isFinal])

\* onTurnComplete: the setTranscripts updater.
onTurnComplete(prev, speaker) ==
  [k \in DOMAIN prev |->
     IF prev[k].speaker = speaker /\ ~prev[k].isFinal
     THEN [prev[k] EXCEPT !.isFinal = TRUE]
     ELSE prev[k]]

\* What one callback does to the state of App.
AppCallback(cb, st) ==
  CASE cb.cb = "onTranscriptUpdate" ->
         [st EXCEPT !.transcripts = onTranscriptUpdate(@, cb.text, cb.isFinal, cb.speaker)]
    [] cb.cb = "onTurnComplete" ->
         [st EXCEPT !.transcripts = onTurnComplete(@, cb.speaker)]
    [] cb.cb = "onError" -> [st EXCEPT !.sessionState = "idle"]
    [] cb.cb = "onClose" -> [st EXCEPT !.sessionState = "finished"]

RECURSIVE AppCallbacks(_, _)
AppCallbacks(cbs, st) ==
  IF cbs = <<>> THEN st ELSE AppCallbacks(Tail(cbs), AppCallback(Head(cbs), st))

\* The step invokes the callbacks cbs, in order, on the callbacks App passed.
Invoke(cbs) ==
  LET st == AppCallbacks(cbs, [sessionState |-> sessionState, transcripts |-> transcripts])
  IN  /\ calls' = cbs
      /\ sessionState' = st.sessionState
      /\ transcripts' = st.transcripts
      /\ serviceRef' = serviceRef

\* ------------------------------------------------------------------ cleanup
\* source.stop() on every unit of a set.
StopUnits(units) ==
  [k \in DOMAIN chunks |->
     IF k \in units THEN [chunks[k] EXCEPT !.state = "stopped"] ELSE chunks[k]]

\* The history after one more run of cleanup: the runs since the last
\* startSession (2 stands for two or more), and whether a run stopped, closed
\* or disconnected a resource that already was.
Torn(h) ==
  [h EXCEPT
     !.teardowns = IF @ < 2 THEN @ + 1 ELSE @,
     !.reclosed = \/ @
                  \/ scriptProcessor # 0 /\ scriptProcessor \notin connectedProc
                  \/ sourceNode # 0 /\ sourceNode \notin connectedSrc
                  \/ mediaStream # 0 /\ mediaStream \notin liveStreams
                  \/ inputAudioContext # 0 /\ inputAudioContext \notin openInputs
                  \/ outputAudioContext # 0 /\ outputAudioContext \notin openOutputs
                  \/ \E k \in outputSources : chunks[k].state = "stopped"]

\* The mutant of cleanup: the stream and the contexts are released and the
\* fields that hold them are not set to null.
cleanupKeepsFields ==
  /\ connectedProc' = connectedProc \ {scriptProcessor}
  /\ scriptProcessor' = 0
  /\ connectedSrc' = connectedSrc \ {sourceNode}
  /\ sourceNode' = 0
  /\ liveStreams' = liveStreams \ {mediaStream}
  /\ openInputs' = openInputs \ {inputAudioContext}
  /\ openOutputs' = openOutputs \ {outputAudioContext}
  /\ chunks' = StopUnits(outputSources)
  /\ outputSources' = {}
  /\ session' = 0
  /\ sessionPromise' = 0
  /\ UNCHANGED <<mediaStream, inputAudioContext, outputAudioContext,
                 nextStartTime, scheduled, queued>>

\* The mutant of cleanup: the tracks of the stream are not stopped.
cleanupKeepsTracks ==
  /\ connectedProc' = connectedProc \ {scriptProcessor}
  /\ scriptProcessor' = 0
  /\ connectedSrc' = connectedSrc \ {sourceNode}
  /\ sourceNode' = 0
  /\ mediaStream' = 0
  /\ openInputs' = openInputs \ {inputAudioContext}
  /\ inputAudioContext' = 0
  /\ openOutputs' = openOutputs \ {outputAudioContext}
  /\ outputAudioContext' = 0
  /\ chunks' = StopUnits(outputSources)
  /\ outputSources' = {}
  /\ session' = 0
  /\ sessionPromise' = 0
  /\ UNCHANGED <<liveStreams, nextStartTime, scheduled, queued>>

cleanup ==
  /\ connectedProc' = connectedProc \ {scriptProcessor}
  /\ scriptProcessor' = 0
  /\ connectedSrc' = connectedSrc \ {sourceNode}
  /\ sourceNode' = 0
  /\ liveStreams' = liveStreams \ {mediaStream}
  /\ mediaStream' = 0
  /\ openInputs' = openInputs \ {inputAudioContext}
  /\ inputAudioContext' = 0
  /\ openOutputs' = openOutputs \ {outputAudioContext}
  /\ outputAudioContext' = 0
  /\ chunks' = StopUnits(outputSources)
  /\ outputSources' = {}
  /\ session' = 0
  /\ sessionPromise' = 0
  /\ UNCHANGED <<nextStartTime, scheduled, queued>>

\* ------------------------------------------------------------- startSession
\* The next call number, 0 when MaxCalls calls were made.
NextCall ==
  IF \E c \in Calls : pc[c] = "none"
  THEN CHOOSE c \in Calls : pc[c] = "none" /\ \A d \in Calls : d < c => pc[d] # "none"
  ELSE 0

\* startSession up to its first await: getUserMedia is requested.
startSession ==
  /\ NextCall # 0
  /\ pc' = [pc EXCEPT ![NextCall] = "getUserMedia"]
  /\ last' = Step("startSession", NextCall, NoMsg)
  /\ hist' = [hist EXCEPT !.stopped = FALSE, !.teardowns = 0]

\* The caller invokes startSession on the bridge: a first time, and again
\* once it has called stopSession.
StartSession ==
  /\ NextCall = 1 \/ hist.stopped
  /\ startSession
  /\ calls' = <<>>
  /\ UNCHANGED <<fields, platform, playback, buffers, ui, conn, currentTime>>

\* getUserMedia resolves: the stream and both contexts are created, connect is
\* requested, and the call awaits the session promise.
GetUserMediaResolve(c) ==
  /\ pc[c] = "getUserMedia"
  /\ mediaStream' = c
  /\ liveStreams' = liveStreams \cup {c}
  /\ inputAudioContext' = c
  /\ openInputs' = openInputs \cup {c}
  /\ outputAudioContext' = c
  /\ openOutputs' = openOutputs \cup {c}
  /\ currentTime' = 0
  /\ sessionPromise' = c
  /\ conn' = [conn EXCEPT ![c] = "connecting"]
  /\ pc' = [pc EXCEPT ![c] = "connect"]
  /\ calls' = <<>>
  /\ last' = Step("getUserMediaResolve", c, NoMsg)
  /\ UNCHANGED <<session, scriptProcessor, sourceNode, connectedProc, connectedSrc,
                 queued, playback, buffers, ui, hist>>

\* The message startSession's catch block reports.
StartErrorMessage(isError) ==
  IF isError THEN "Impossible de demarrer la session"
  ELSE "Une erreur inconnue est survenue"

\* The mutant of StartFailed: the catch block reports and does not clean up.
StartFailedKeeps(c, isError) ==
  /\ Invoke(<<OnError(StartErrorMessage(isError))>>)
  /\ pc' = [pc EXCEPT ![c] = "failed"]
  /\ UNCHANGED <<fields, platform, playback, buffers, currentTime, hist>>

\* The catch block of startSession: onError, then cleanup.
StartFailed(c, isError) ==
  /\ Invoke(<<OnError(StartErrorMessage(isError))>>)
  /\ cleanup
  /\ pc' = [pc EXCEPT ![c] = "failed"]
  /\ hist' = Torn(hist)
  /\ UNCHANGED <<buffers, currentTime>>

\* getUserMedia rejects (permission denied): with a DOMException, an Error.
GetUserMediaReject(c) ==
  /\ pc[c] = "getUserMedia"
  /\ StartFailed(c, TRUE)
  /\ last' = Step("getUserMediaReject", c, NoMsg)
  /\ UNCHANGED conn

\* The session promise rejects: the connection could not be established.  The
\* value it rejects with is an Error or anything else.
ConnectReject(c, isError) ==
  /\ pc[c] = "connect"
  /\ conn[c] = "connecting"
  /\ conn' = [conn EXCEPT ![c] = "closed"]
  /\ StartFailed(c, isError)
  /\ last' = [Step("connectReject", c, NoMsg) EXCEPT !.isError = isError]

\* The connection signals open: the onopen callback wires the capture path.
\* With inputAudioContext null the callback throws on its first line.
onopen(c) ==
  /\ conn[c] = "connecting"
  /\ conn' = [conn EXCEPT ![c] = "open"]
  /\ IF inputAudioContext = 0
     THEN UNCHANGED <<sourceNode, scriptProcessor, connectedSrc, connectedProc>>
     ELSE /\ sourceNode' = c
          /\ scriptProcessor' = c
          /\ connectedSrc' = connectedSrc \cup {c}
          /\ connectedProc' = connectedProc \cup {c}
  /\ calls' = <<>>
  /\ last' = Step("onopen", c, NoMsg)
  /\ UNCHANGED <<session, sessionPromise, mediaStream, inputAudioContext,
                 outputAudioContext, liveStreams, openInputs, openOutputs,
                 queued, playback, buffers, ui, pc, currentTime, hist>>

\* The history after session.sendRealtimeInput on the session of call p:
\* whether a frame was sent while the bridge was torn down, and whether one
\* was sent on a connection that had not signalled open.
Sent(h, p) ==
  [h EXCEPT !.sentTorn = @ \/ (sessionPromise = 0 /\ h.teardowns >= 1),
            !.sentEarly = @ \/ conn[p] \in {"none", "connecting"}]

\* The session promise resolves: this.session = await this.sessionPromise, and
\* the then() reactions that onaudioprocess registered on the promise run:
\* each sends its frame.
ConnectResolve(c) ==
  /\ pc[c] = "connect"
  /\ conn[c] = "open"
  /\ session' = c
  /\ pc' = [pc EXCEPT ![c] = "done"]
  /\ queued' = queued \ {c}
  /\ hist' = IF c \in queued THEN Sent(hist, c) ELSE hist
  /\ calls' = <<>>
  /\ last' = Step("connectResolve", c, NoMsg)
  /\ UNCHANGED <<sessionPromise, mediaStream, inputAudioContext, outputAudioContext,
                 scriptProcessor, sourceNode, liveStreams, openInputs, openOutputs,
                 connectedProc, connectedSrc, playback, buffers, ui,
                 conn, currentTime>>

\* The onaudioprocess handler of script processor c, which fires while the
\* processor is connected in an open context:
\* this.sessionPromise?.then(session => session.sendRealtimeInput(...)).
\* On a resolved promise the frame is sent at once; on a pending one the
\* reaction waits for the promise; a rejected promise runs no reaction.
onaudioprocess(c) ==
  /\ c \in connectedProc
  /\ c \in openInputs
  /\ queued' = IF sessionPromise # 0 /\ pc[sessionPromise] = "connect"
               THEN queued \cup {sessionPromise} ELSE queued
  /\ hist' = IF sessionPromise # 0 /\ pc[sessionPromise] = "done"
             THEN Sent(hist, sessionPromise) ELSE hist
  /\ calls' = <<>>
  /\ last' = Step("onaudioprocess", c, NoMsg)
  /\ UNCHANGED <<fields, liveStreams, openInputs, openOutputs, connectedProc,
                 connectedSrc, playback, buffers, ui, pc, conn, currentTime>>

\* The onerror callback of the connection.
onerror(c) ==
  /\ conn[c] \in {"connecting", "open", "closing"}
  /\ Invoke(<<OnError("Erreur de connexion")>>)
  /\ last' = Step("onerror", c, NoMsg)
  /\ UNCHANGED <<fields, platform, playback, buffers, pc, conn, currentTime, hist>>

\* The onclose callback of the connection: onClose, then cleanup.
onclose(c) ==
  /\ conn[c] \in {"open", "closing"}
  /\ conn' = [conn EXCEPT ![c] = "closed"]
  /\ Invoke(<<OnClose>>)
  /\ cleanup
  /\ last' = Step("onclose", c, NoMsg)
  /\ hist' = Torn(hist)
  /\ UNCHANGED <<buffers, pc, currentTime>>

\* -------------------------------------------------------------- stopSession
\* this.session?.close()
CloseSession ==
  IF session # 0 /\ conn[session] = "open"
  THEN [conn EXCEPT ![session] = "closing"]
  ELSE conn

stopSession ==
  /\ conn' = CloseSession
  /\ cleanup
  /\ calls' = <<>>
  /\ last' = Step("stopSession", session, NoMsg)
  /\ hist' = [Torn(hist) EXCEPT !.stopped = TRUE]
  /\ UNCHANGED <<buffers, pc, currentTime>>

\* The caller invokes stopSession on the bridge.
StopSession ==
  /\ \E c \in Calls : pc[c] # "none"
  /\ stopSession
  /\ UNCHANGED ui

\* -------------------------------------------------------------- App handlers
\* handleStart up to its await.  The instance followed is the one the first
\* click creates; what handleStart does after the await changes only the
\* status line.
handleStart ==
  /\ sessionState # "active"
  /\ ~serviceRef
  /\ transcripts' = <<>>
  /\ sessionState' = "active"
  /\ serviceRef' = TRUE
  /\ startSession
  /\ calls' = <<>>
  /\ UNCHANGED <<fields, platform, playback, buffers, conn, currentTime>>

handleStop ==
  /\ sessionState = "active"
  /\ serviceRef
  /\ stopSession
  /\ UNCHANGED ui

\* ------------------------------------------------------ handleServerMessage
\* The mutant of AppendTranscription: the partial text replaces the buffer.
AppendTranscriptionReplaces(buf, field) ==
  IF field = <<>> THEN buf ELSE field[1]

\* this.currentXTranscription += text, when the message carries the field.
AppendTranscription(buf, field) ==
  IF field = <<>> THEN buf ELSE buf \o field[1]

\* The onTranscriptUpdate call of a transcription field.
UpdateCalls(buf, field, speaker) ==
  IF field = <<>> THEN <<>> ELSE <<TranscriptUpdate(buf, speaker)>>

\* turnComplete, one speaker: the callback ...
FlushCalls(buf, speaker) ==
  IF buf # <<>> THEN <<TurnComplete(speaker)>> ELSE <<>>

\* The mutant of FlushBuffer: the buffer is not cleared.
FlushBufferKeeps(buf) == buf

\* ... and the buffer afterwards.
FlushBuffer(buf) ==
  IF buf # <<>> THEN <<>> ELSE buf

\* interrupted: the live set after the loop that stops and deletes every source.
InterruptedSources(sources) == {}

\* The mutant of InterruptedStartTime: the clock is not reset.
InterruptedStartTimeKept(nst) == nst

\* interrupted: this.nextStartTime = 0.
InterruptedStartTime(nst) == 0

\* this.nextStartTime = Math.max(this.nextStartTime, currentTime), on arrival.
ArrivalStartTime(nst, now) == Max(nst, now)

\* The chunk whose decode starts.
NewChunk(d) ==
  [dur |-> d, state |-> "decoding", start |-> 0, begin |-> 0, stale |-> FALSE]

\* The transcription field of a message for a speaker.
FieldOf(m, speaker) ==
  IF speaker = "Victime" THEN m.inputTranscription ELSE m.outputTranscription

\* The partial texts of a speaker received since the last turn-complete, a
\* message that carries a turn-complete counting as the last of its turn.
Received(ps, field, turnComplete) ==
  [texts  |-> (IF ps.closed THEN <<>> ELSE ps.texts)
                \o (IF field = <<>> THEN <<>> ELSE field),
   closed |-> turnComplete]

\* handleServerMessage(m) up to its await (its end, when m carries no audio or
\* outputAudioContext is null), called by the onmessage callback of connection c.
handleServerMessage(c, m) ==
  LET inText   == AppendTranscription(currentInputTranscription, m.inputTranscription)
      outText  == AppendTranscription(currentOutputTranscription, m.outputTranscription)
      updates  == UpdateCalls(inText, m.inputTranscription, "Victime")
                    \o UpdateCalls(outText, m.outputTranscription, "IA")
      turns    == IF m.turnComplete
                  THEN FlushCalls(inText, "Victime") \o FlushCalls(outText, "IA")
                  ELSE <<>>
      stopped  == IF m.interrupted THEN StopUnits(outputSources) ELSE chunks
      stale    == [k \in DOMAIN stopped |->
                     IF m.interrupted /\ stopped[k].state = "decoding"
                     THEN [stopped[k] EXCEPT !.stale = TRUE] ELSE stopped[k]]
      nst      == IF m.interrupted THEN InterruptedStartTime(nextStartTime)
                  ELSE nextStartTime
      hasAudio == m.audio # 0 /\ outputAudioContext # 0
  IN  /\ conn[c] \in {"open", "closing"}
      /\ currentInputTranscription' =
           IF m.turnComplete THEN FlushBuffer(inText) ELSE inText
      /\ currentOutputTranscription' =
           IF m.turnComplete THEN FlushBuffer(outText) ELSE outText
      /\ partials' =
           [s \in Speakers |->
              Received(partials[s], FieldOf(m, s), m.turnComplete)]
      /\ Invoke(updates \o turns)
      /\ outputSources' =
           IF m.interrupted THEN InterruptedSources(outputSources) ELSE outputSources
      /\ nextStartTime' =
           IF hasAudio THEN ArrivalStartTime(nst, currentTime) ELSE nst
      /\ chunks' = IF hasAudio THEN Append(stale, NewChunk(m.audio)) ELSE stale
      /\ last' = Step("message", c, m)
      /\ hist' = [hist EXCEPT
                    !.msgs = @ + 1,
                    !.interrupted = @ \/ m.interrupted,
                    !.afterInt = IF m.interrupted THEN TRUE ELSE @,
                    !.intClock = IF m.interrupted THEN currentTime ELSE @,
                    !.jumped = @ \/ (hasAudio /\ scheduled # <<>> /\ currentTime > nst)]
      /\ UNCHANGED <<fields, platform, scheduled, pc, conn, currentTime>>

\* The mutant of AdvanceStartTime: the duration replaces the clock.
AdvanceStartTimeSets(nst, dur) == dur

\* this.nextStartTime += audioBuffer.duration
AdvanceStartTime(nst, dur) == nst + dur

\* The moment the sink begins to play a unit started with start(when): a time
\* in the past means now.
PlayFrom(when, now) == Max(when, now)

\* handleServerMessage after its await: the decode of chunk k completed.  With
\* outputAudioContext null, createBufferSource throws a TypeError.
DecodeComplete(k) ==
  /\ k \in DOMAIN chunks
  /\ chunks[k].state = "decoding"
  /\ IF outputAudioContext = 0
     THEN /\ chunks' = [chunks EXCEPT ![k] = [@ EXCEPT !.state = "threw"]]
          /\ UNCHANGED <<outputSources, nextStartTime, scheduled>>
     ELSE /\ chunks' = [chunks EXCEPT ![k] =
                          [@ EXCEPT !.state = "playing",
                                    !.start = nextStartTime,
                                    !.begin = PlayFrom(nextStartTime, currentTime)]]
          /\ nextStartTime' = AdvanceStartTime(nextStartTime, chunks[k].dur)
          /\ outputSources' = outputSources \cup {k}
          /\ scheduled' = Append(scheduled, k)
  /\ calls' = <<>>
  /\ last' = Step("decodeComplete", k, NoMsg)
  /\ hist' = IF outputAudioContext = 0 THEN hist
             ELSE [hist EXCEPT !.afterInt = FALSE, !.intClock = 0]
  /\ UNCHANGED <<fields, platform, buffers, ui, pc, conn, currentTime>>

\* The 'ended' listener of a unit that played to its end.
ended(k) ==
  /\ k \in DOMAIN chunks
  /\ chunks[k].state = "playing"
  /\ currentTime >= chunks[k].begin + chunks[k].dur
  /\ chunks' = [chunks EXCEPT ![k] = [@ EXCEPT !.state = "ended"]]
  /\ outputSources' = outputSources \ {k}
  /\ calls' = <<>>
  /\ last' = Step("ended", k, NoMsg)
  /\ UNCHANGED <<fields, platform, nextStartTime, scheduled, buffers, ui, pc, conn,
                 currentTime, hist>>

\* The output clock advances.
Tick ==
  /\ openOutputs # {}
  /\ currentTime < MaxTime
  /\ currentTime' = currentTime + 1
  /\ calls' = <<>>
  /\ last' = Step("tick", 0, NoMsg)
  /\ UNCHANGED <<fields, platform, playback, buffers, ui, pc, conn, hist>>

\* ----------------------------------------------------------- specifications
\* The connection events of a session.
Connection ==
  \/ \E c \in Calls : GetUserMediaResolve(c)
  \/ \E c \in Calls : onopen(c)
  \/ \E c \in Calls : ConnectResolve(c)
  \/ \E c \in Calls : onclose(c)

Failures ==
  \/ \E c \in Calls : GetUserMediaReject(c)
  \/ \E c \in Calls, isError \in BOOLEAN : ConnectReject(c, isError)
  \/ \E c \in Calls : onerror(c)

\* At most max messages arrive, each drawn from msgs.
Inbound(msgs, max) ==
  /\ hist.msgs < max
  /\ \E c \in Calls, m \in msgs : handleServerMessage(c, m)

Playing ==
  \/ \E k \in DOMAIN chunks : DecodeComplete(k)
  \/ \E k \in DOMAIN chunks : ended(k)
  \/ Tick

\* The bridge driven through its two methods, in any order.
NextBridge ==
  \/ StartSession
  \/ StopSession
  \/ Connection
  \/ Failures
  \/ Inbound(SessionMsgs, MaxSessionMsgs)
  \/ \E k \in DOMAIN chunks : DecodeComplete(k)

SpecBridge == Init /\ [][NextBridge]_vars

\* The bridge driven by App: one click on start, then stop at any time.
NextApp ==
  \/ handleStart
  \/ handleStop
  \/ Connection
  \/ Failures
  \/ Inbound(SessionMsgs, MaxSessionMsgs)
  \/ \E k \in DOMAIN chunks : DecodeComplete(k)
  \/ \E c \in Calls : onaudioprocess(c)

Spec == Init /\ [][NextApp]_vars

\* A session of App and its transcript messages.
NextTranscript ==
  \/ handleStart
  \/ handleStop
  \/ Connection
  \/ Inbound(TranscriptMsgs, MaxTranscriptMsgs)

SpecTranscript == Init /\ [][NextTranscript]_vars

\* A session of App that stays open, the audio and interruption messages it
\* receives once startSession has returned, and the output clock.
NextPlayback ==
  \/ handleStart
  \/ \E c \in Calls : GetUserMediaResolve(c)
  \/ \E c \in Calls : onopen(c)
  \/ \E c \in Calls : ConnectResolve(c)
  \/ session # 0 /\ Inbound(AudioMsgs, MaxAudioMsgs)
  \/ Playing

SpecPlayback == Init /\ [][NextPlayback]_vars

\* ------------------------------------------------------------------ helpers
RECURSIVE Concat(_)
Concat(texts) ==
  IF texts = <<>> THEN <<>> ELSE Head(texts) \o Concat(Tail(texts))

\* The calls of callback name for a speaker among cbs.
CallsOf(cbs, name, speaker) ==
  LET Is(cb) == cb.cb = name /\ cb.speaker = speaker
  IN  SelectSeq(cbs, Is)

\* The buffer of a speaker.
BufferOf(speaker) ==
  IF speaker = "Victime" THEN currentInputTranscription
  ELSE currentOutputTranscription

\* ---------------------------------------------------------------------- C1
\* C1: a message that carries a partial transcript of a speaker calls
\* onTranscriptUpdate exactly once for that speaker, with isFinal false and
\* with the concatenation, in arrival order, of the partial texts received for
\* that speaker since the last turn-complete; a message that carries none for
\* a speaker calls no onTranscriptUpdate for that speaker.
C1_PartialsConcatenate ==
  last.op = "message" =>
    \A s \in Speakers :
      LET ups == CallsOf(calls, "onTranscriptUpdate", s)
      IN  IF FieldOf(last.msg, s) = <<>>
          THEN ups = <<>>
          ELSE /\ Len(ups) = 1
               /\ ups[1].text = Concat(partials[s].texts)
               /\ ~ups[1].isFinal

\* Witness of C1: the second partial of a turn of Victime, with a partial of
\* IA received in the same turn, is reported with the two texts in order.
C1_Witness ==
  /\ last.op = "message"
  /\ partials["Victime"].texts = <<<<"a">>, <<"b">>>>
  /\ partials["IA"].texts # <<>>
  /\ last.msg.inputTranscription = <<<<"b">>>>
  /\ CallsOf(calls, "onTranscriptUpdate", "Victime")[1].text = <<"a", "b">>

\* ---------------------------------------------------------------------- C2
\* C2: when a message with turnComplete is handled, a speaker whose buffer
\* (after the message's own partial was appended) is non-empty gets exactly
\* one onTurnComplete and an empty buffer; a speaker whose buffer is empty
\* gets no onTurnComplete and keeps an empty buffer.
C2_TurnCompleteFlushes ==
  [][(last'.op = "message" /\ last'.msg.turnComplete) =>
       \A s \in Speakers :
         LET buf == BufferOf(s)
                      \o (IF FieldOf(last'.msg, s) = <<>> THEN <<>>
                          ELSE FieldOf(last'.msg, s)[1])
             n == Len(CallsOf(calls', "onTurnComplete", s))
         IN  /\ BufferOf(s)' = <<>>
             /\ n = (IF buf # <<>> THEN 1 ELSE 0)]_vars

\* Witness of C2: a turn-complete flushed Victime, whose turn held two
\* partials, and not IA, whose buffer was empty.
C2_Witness ==
  /\ last.op = "message" /\ last.msg.turnComplete
  /\ Len(partials["Victime"].texts) = 2
  /\ partials["IA"].texts = <<>>
  /\ currentInputTranscription = <<>>
  /\ calls = <<TurnComplete("Victime")>>

\* ---------------------------------------------------------------------- C3
\* The unit the last step started, when that step is a decode completion
\* that reached source.start().
Started(k) ==
  /\ last.op = "decodeComplete"
  /\ last.c = k
  /\ chunks[k].state = "playing"

\* C3: (a) the step that handles a message with the interruption signal stops
\* every unit of the live set and empties the set, and sets nextStartTime to 0
\* before the audio of that message is looked at: afterwards nextStartTime is
\* the output clock's time when the message carries audio that is decoded,
\* and 0 otherwise; (b) the first unit started after an interruption begins
\* to play at the output clock's current time, and the time given to start()
\* is 0 or a time the clock showed since the interruption.
C3_InterruptionResets ==
  [][/\ (last'.op = "message" /\ last'.msg.interrupted) =>
          /\ \A k \in outputSources : chunks'[k].state = "stopped"
          /\ outputSources' = {}
          /\ nextStartTime' =
               (IF Len(chunks') > Len(chunks) THEN currentTime ELSE 0)
     /\ (hist.afterInt /\ Len(scheduled') > Len(scheduled)) =>
          LET u == chunks'[scheduled'[Len(scheduled')]]
          IN  /\ u.begin = currentTime
              /\ u.start = 0 \/ (hist.intClock <= u.start /\ u.start <= currentTime)
    ]_vars

\* Witness of C3: a unit was playing with the clock behind its end, an
\* interruption stopped it, and the chunk that arrived after the interruption
\* was started before the offset the first unit had reached.
C3_Witness ==
  /\ Len(scheduled) = 2
  /\ Started(scheduled[2])
  /\ hist.interrupted
  /\ ~chunks[scheduled[2]].stale
  /\ chunks[scheduled[1]].state = "stopped"
  /\ chunks[scheduled[2]].start < chunks[scheduled[1]].start + chunks[scheduled[1]].dur
  /\ chunks[scheduled[2]].start > 0

\* ---------------------------------------------------------------------- C4
\* C4 as claimed: without an interruption, every unit begins to play no
\* earlier than the end of each unit scheduled before it.
C4_NoOverlap ==
  ~hist.interrupted =>
    \A i, j \in 1..Len(scheduled) :
      i < j =>
        chunks[scheduled[j]].begin
          >= chunks[scheduled[i]].begin + chunks[scheduled[i]].dur

\* ---------------------------------------------------------------------- C5
\* The sum of the durations of the first n units scheduled.
RECURSIVE ScheduledDuration(_)
ScheduledDuration(n) ==
  IF n = 0 THEN 0 ELSE ScheduledDuration(n - 1) + chunks[scheduled[n]].dur

\* C5 as claimed, the chunks taken in the order they are scheduled: without
\* an interruption, the start time of the i-th unit is the start time of the
\* first unit plus d1 + ... + d(i-1), and nextStartTime right after a unit is
\* scheduled is its start time plus its duration.
C5_StartIsSumOfDurations ==
  ~hist.interrupted =>
    /\ \A i \in 1..Len(scheduled) :
         chunks[scheduled[i]].start
           = chunks[scheduled[1]].start + ScheduledDuration(i - 1)
    /\ \A k \in DOMAIN chunks :
         Started(k) => nextStartTime = chunks[k].start + chunks[k].dur

\* C5 as amended: without an interruption, the start time of the i-th unit
\* scheduled (units are scheduled as their decodes complete) is at least the
\* start time of the first unit scheduled plus the durations of the units
\* scheduled before it, and exactly that as long as no chunk arrived, after
\* the first unit was scheduled, with the output clock ahead of
\* nextStartTime; and nextStartTime right after a unit is scheduled is its
\* start time plus its duration.
C5_StartAtLeastSumOfDurations ==
  ~hist.interrupted =>
    /\ \A i \in 1..Len(scheduled) :
         LET gapless == chunks[scheduled[1]].start + ScheduledDuration(i - 1)
         IN  /\ chunks[scheduled[i]].start >= gapless
             /\ ~hist.jumped => chunks[scheduled[i]].start = gapless
    /\ \A k \in DOMAIN chunks :
         Started(k) => nextStartTime = chunks[k].start + chunks[k].dur

\* Witness of C5: three units of different durations were scheduled back to
\* back, the last one a moment ago, in another order than they arrived.
C5_Witness ==
  /\ ~hist.interrupted /\ ~hist.jumped
  /\ Len(scheduled) = 3
  /\ Started(scheduled[3])
  /\ scheduled[1] # 1
  /\ chunks[scheduled[1]].dur # chunks[scheduled[2]].dur
  /\ chunks[scheduled[3]].start
       = chunks[scheduled[1]].start + chunks[scheduled[1]].dur + chunks[scheduled[2]].dur

\* ------------------------------------------------------------ C6 .. C10
\* The bridge holds no microphone stream, no audio context, no capture node
\* and no session handle.
Released ==
  /\ mediaStream = 0
  /\ inputAudioContext = 0 /\ outputAudioContext = 0
  /\ scriptProcessor = 0 /\ sourceNode = 0
  /\ session = 0

\* Nothing the bridge created is still held by the platform.
NothingHeld ==
  /\ liveStreams = {} /\ openInputs = {} /\ openOutputs = {}
  /\ connectedProc = {} /\ connectedSrc = {}

\* The connections that were requested and are not closed.
LiveConnections == {c \in Calls : conn[c] \in {"connecting", "open", "closing"}}

\* C6 as claimed: after stopSession, the handling of a message calls no
\* callback and starts no decode, and no playback unit is started.
C6_NoOpAfterStop ==
  hist.stopped =>
    /\ last.op = "message" =>
         /\ calls = <<>>
         /\ \A k \in DOMAIN chunks : chunks[k].state # "decoding"
    /\ \A k \in DOMAIN chunks : ~Started(k)

\* C7 as claimed: when the connection of a session that is open and was not
\* stopped reports an error, the onerror callback reports onError and runs
\* the teardown.
C7_ErrorTearsDown ==
  (last.op = "onerror" /\ pc[last.c] = "done" /\ ~hist.stopped) =>
    /\ Len(calls) = 1 /\ calls[1].cb = "onError"
    /\ Released
    /\ NothingHeld
    /\ outputSources = {}

\* C8 as claimed: a startSession that fails at getUserMedia or at connect
\* calls onError once, with "Impossible de demarrer la session", requests no
\* other connection, leaves nothing held and App idle.
C8_StartFailureReported ==
  last.op \in {"getUserMediaReject", "connectReject"} =>
    /\ calls = <<OnError("Impossible de demarrer la session")>>
    /\ LiveConnections = {}
    /\ Released /\ NothingHeld
    /\ sessionState = "idle"

\* C8 as amended: the message is "Impossible de demarrer la session" when
\* the failure is an Error, and "Une erreur inconnue est survenue" when
\* connect rejects with anything else.
C8_StartFailureReportedEither ==
  last.op \in {"getUserMediaReject", "connectReject"} =>
    /\ calls = <<OnError(IF last.isError
                         THEN "Impossible de demarrer la session"
                         ELSE "Une erreur inconnue est survenue")>>
    /\ LiveConnections = {}
    /\ Released /\ NothingHeld
    /\ sessionState = "idle"

\* Witness of C8: connect rejected with an Error after the stream and the
\* contexts of the call had been created.
C8_Witness ==
  /\ last.op = "connectReject" /\ last.isError
  /\ pc[last.c] = "failed" /\ conn[last.c] = "closed"
  /\ calls = <<OnError("Impossible de demarrer la session")>>
  /\ sessionState = "idle"
  /\ Released

\* C9 as claimed: at most one connection of the instance is live, and at
\* most one microphone stream and one pair of audio contexts is held.
C9_OneSession ==
  /\ Cardinality(LiveConnections) <= 1
  /\ Cardinality(liveStreams) <= 1
  /\ Cardinality(openInputs) <= 1
  /\ Cardinality(openOutputs) <= 1

\* C10 as claimed: once stopSession was called, and until the next
\* startSession, no connection of the bridge is left connecting or open
\* without a close request, and the bridge holds nothing.
C10_StopReleases ==
  hist.stopped =>
    /\ \A c \in Calls : conn[c] \notin {"connecting", "open"}
    /\ Released
    /\ NothingHeld

\* --------------------------------------------------------------------- C11
\* The operations that run cleanup.
CleanupOps == {"stopSession", "onclose", "getUserMediaReject", "connectReject"}

\* C11: when a step that runs cleanup ends, the tracks of the stream the
\* bridge held are stopped, the capture nodes it held are disconnected, both
\* contexts it held are closed, every unit that was in the live set is
\* stopped, the set is empty, and every field cleanup assigns is null.
C11_CleanupReleasesAll ==
  [][last'.op \in CleanupOps =>
       /\ mediaStream \notin liveStreams'
       /\ scriptProcessor \notin connectedProc'
       /\ sourceNode \notin connectedSrc'
       /\ inputAudioContext \notin openInputs'
       /\ outputAudioContext \notin openOutputs'
       /\ \A k \in outputSources : chunks'[k].state = "stopped"
       /\ outputSources' = {}
       /\ mediaStream' = 0 /\ scriptProcessor' = 0 /\ sourceNode' = 0
       /\ inputAudioContext' = 0 /\ outputAudioContext' = 0
       /\ session' = 0 /\ sessionPromise' = 0]_vars

\* Witness of C11: stopSession tore down a session that was open, with its
\* capture path wired and a unit in the live set.
C11_Witness ==
  /\ last.op = "stopSession" /\ last.c # 0
  /\ conn[last.c] = "closing"
  /\ hist.teardowns = 1
  /\ \E k \in DOMAIN chunks : chunks[k].state = "stopped"
  /\ mediaStream = 0 /\ sessionPromise = 0 /\ outputSources = {}
  /\ liveStreams = {} /\ connectedProc = {}

\* --------------------------------------------------------------------- C12
\* C12 as claimed: once the connection of a session is closed the teardown
\* has run, and it never runs a second time for the same session.
C12_TeardownOnce ==
  /\ (\E c \in Calls : conn[c] = "closed") => hist.teardowns >= 1
  /\ hist.teardowns <= 1

\* --------------------------------------------------------------------- C13
\* C13 as claimed: when the decode of a chunk completes after cleanup ran
\* while it was in flight (the output context the chunk was received with is
\* gone), no unit is created or started, the live set stays empty,
\* nextStartTime keeps its value, and the handler raises no error.
C13_LateDecodeIsNoOp ==
  [][(/\ last'.op = "decodeComplete"
      /\ hist.teardowns >= 1
      /\ outputAudioContext = 0) =>
       /\ chunks'[last'.c].state \notin {"playing", "threw"}
       /\ outputSources' = {}
       /\ nextStartTime' = nextStartTime]_vars

\* --------------------------------------------------------------------- C14
\* C14 as claimed: the time given to start() is never earlier than the output
\* clock's time at the moment the unit is scheduled.
C14_StartNotBeforeClock ==
  \A k \in DOMAIN chunks : Started(k) => chunks[k].start >= currentTime

\* --------------------------------------------------------------------- C15
\* C15 as claimed: the handling of a message begins only when the chunk of
\* every earlier message has been scheduled, and the units are started in the
\* order their chunks arrived (chunks are numbered in arrival order).
C15_ArrivalOrder ==
  /\ last.op = "message" =>
       \A k \in DOMAIN chunks : chunks[k].state = "decoding" => k = Len(chunks)
  /\ \A i, j \in 1..Len(scheduled) : i < j => scheduled[i] < scheduled[j]

\* --------------------------------------------------------------------- C16
\* C16: a run of cleanup in the state an earlier run left (every field null,
\* the live set empty) changes no field of the bridge, no resource and no
\* unit; and no run of cleanup ever stops, closes or disconnects a resource
\* that already was.
C16_CleanupIdempotent ==
  [][/\ (/\ last'.op \in CleanupOps
         /\ hist.teardowns >= 1
         /\ Released /\ sessionPromise = 0 /\ outputSources = {})
          => UNCHANGED <<fields, platform, playback, buffers>>
     /\ ~hist'.reclosed]_vars

\* Witness of C16: stopSession tore down an open session with a unit in the
\* live set, and the onclose of its connection ran cleanup a second time.
C16_Witness ==
  /\ last.op = "onclose"
  /\ hist.stopped /\ hist.teardowns = 2
  /\ pc[last.c] = "done"
  /\ \E k \in DOMAIN chunks : chunks[k].state = "stopped"
  /\ Released /\ sessionPromise = 0 /\ NothingHeld

\* --------------------------------------------------------------------- C17
\* The entries of the transcript list of a speaker that are not final: the
\* records of the speaker's turn in progress.
NonFinal(speaker) ==
  {i \in DOMAIN transcripts :
     transcripts[i].speaker = speaker /\ ~transcripts[i].isFinal}

\* C17 as claimed: the turn in progress of a speaker is held by at most one
\* entry of the list (no earlier partial of the turn stays as an entry of its
\* own), and onTurnComplete for a speaker leaves no entry of that speaker that
\* is not final.
C17_OneRecordPerTurn ==
  \A s \in Speakers :
    /\ Cardinality(NonFinal(s)) <= 1
    /\ CallsOf(calls, "onTurnComplete", s) # <<>> => NonFinal(s) = {}

\* --------------------------------------------------------------------- C18
\* C18 as claimed: a chunk whose decode was in flight when an interruption
\* was handled is never started and never enters the live set.
C18_NoStaleAudio ==
  \A k \in DOMAIN chunks :
    chunks[k].stale =>
      /\ chunks[k].state \notin {"playing", "ended", "stopped"}
      /\ k \notin outputSources
      /\ \A i \in DOMAIN scheduled : scheduled[i] # k

\* --------------------------------------------------------------------- C19
\* C19 as claimed, for the states where no startSession call is still in
\* progress: while the session state of the UI is 'idle', no microphone
\* stream of a bridge is live and no connection of a bridge is open.
C19_IdleHoldsNothing ==
  (sessionState = "idle" /\ \A c \in Calls : pc[c] \notin {"getUserMedia", "connect"}) =>
    /\ liveStreams = {}
    /\ LiveConnections = {}

\* --------------------------------------------------------------------- C20
\* C20 as claimed: no audio frame is sent to the service while the bridge is
\* torn down, the frames that waited for the session promise included, and no
\* frame is sent on a connection that has not signalled open.
C20_FramesOnlyWhileLive ==
  /\ ~hist.sentTorn
  /\ ~hist.sentEarly

\* --------------------------------------------------------------------- C21
\* What the platform and the service are bound to do, the user and the
\* service's own initiative left free: the getUserMedia promise settles, a
\* connection that was requested opens or fails, the session promise of an
\* open connection resolves, a decode completes, and the service answers
\* every close request with onclose.
Fairness ==
  /\ WF_vars(\E c \in Calls : GetUserMediaResolve(c) \/ GetUserMediaReject(c))
  /\ WF_vars(\E c \in Calls :
               onopen(c) \/ \E isError \in BOOLEAN : ConnectReject(c, isError))
  /\ WF_vars(\E c \in Calls : ConnectResolve(c))
  /\ WF_vars(\E k \in DOMAIN chunks : DecodeComplete(k))
  /\ WF_vars(\E c \in Calls : conn[c] = "closing" /\ onclose(c))

\* The bridge driven by App, with that fairness.
SpecLive == Init /\ [][NextApp]_vars /\ Fairness

\* C21 as claimed, in the least it says: once handleStop has called
\* stopSession on an active session, the UI does not stay 'active' forever
\* (the claim says more: that it becomes 'finished' through onClose).
C21_StopLeavesActive ==
  hist.stopped ~> sessionState # "active"

====
